---- MODULE Spec2Model ----
(***************************************************************************)
(* Meta Prompt Orchestrator (src/src/app/page.tsx): the placeholder        *)
(* scanner, the substitution engine, the pack registry and the composer.   *)
(*                                                                         *)
(* A text is a sequence of pieces.  A piece is one character ("{", "}",    *)
(* " ", "\n", a letter) or a run of characters of a source literal that    *)
(* holds no brace and no white space at its ends and is never split        *)
(* ("count", "Pack Name: ").  "\n" is always a piece of its own.           *)
(***************************************************************************)
EXTENDS Integers, Sequences, FiniteSets, TLC

VARIABLES metaPrompt, variables, packs, selectedPackId, detectedVariables,
          lastIndex, last, clock,
          copied, copiedAt, timers, writes, now

\* the status label of the copy buttons and what is pending for it: copied is the
\* state of line 133, timers the timeouts set and not yet run, writes the calls of
\* clipboard.writeText not yet settled, now the time in ms; copiedAt is history
\* (the copy that set the label and when)
clipboard == <<copied, copiedAt, timers, writes, now>>

vars == <<metaPrompt, variables, packs, selectedPackId, detectedVariables,
          lastIndex, last, clock, copied, copiedAt, timers, writes, now>>

----------------------------------------------------------------------------
(* Bounds of the model. *)

\* the number of user actions in one session of the application
MaxSteps == 4
\* the number of pack records in the registry
MaxPacks == 5
\* the number of parts a template of the engine's inputs is put together from
MaxParts == 2

----------------------------------------------------------------------------
(* Texts. *)

\* \s of the regular expression and the white space String.prototype.trim strips
IsSpace(c) == c \in {" ", "\n", "\t"}

\* the characters [^{}] excludes
IsBrace(c) == c \in {"{", "}"}

RECURSIVE Flatten(_)
Flatten(ss) == IF ss = <<>> THEN <<>> ELSE Head(ss) \o Flatten(Tail(ss))

RECURSIVE SeqsUpTo(_, _)
SeqsUpTo(S, n) ==
  IF n = 0 THEN {<<>>}
  ELSE LET shorter == SeqsUpTo(S, n - 1)
       IN shorter \cup {Append(s, x) : s \in shorter, x \in S}

\* Array.prototype.join
RECURSIVE Join(_, _)
Join(parts, sep) ==
  IF parts = <<>> THEN <<>>
  ELSE IF Len(parts) = 1 THEN parts[1]
  ELSE parts[1] \o sep \o Join(Tail(parts), sep)

\* String.prototype.split on a one-piece separator: the list of the texts between
\* the separators, one more than there are separators
RECURSIVE Split(_, _)
Split(t, sep) ==
  IF \A k \in 1..Len(t) : t[k] # sep THEN <<t>>
  ELSE LET k == CHOOSE j \in 1..Len(t) : t[j] = sep /\ \A m \in 1..(j - 1) : t[m] # sep
       IN <<SubSeq(t, 1, k - 1)>> \o Split(SubSeq(t, k + 1, Len(t)), sep)

\* String.prototype.trim
RECURSIVE TrimLeft(_)
TrimLeft(t) == IF t # <<>> /\ IsSpace(Head(t)) THEN TrimLeft(Tail(t)) ELSE t

RECURSIVE TrimRight(_)
TrimRight(t) ==
  IF t # <<>> /\ IsSpace(t[Len(t)]) THEN TrimRight(SubSeq(t, 1, Len(t) - 1)) ELSE t

Trim(t) == TrimRight(TrimLeft(t))

normaliseKey(rawKey) == Trim(rawKey)

----------------------------------------------------------------------------
(* PLACEHOLDER_REGEX = /{{\s*([^{}]+?)\s*}}/g *)

\* the length of the run of white space that starts at position p
RECURSIVE SpaceRun(_, _)
SpaceRun(t, p) == IF p <= Len(t) /\ IsSpace(t[p]) THEN 1 + SpaceRun(t, p + 1) ELSE 0

\* The ways the pattern matches at position i: "{{", white space up to a, the
\* group [a, b) of one or more non-brace characters, white space up to c, "}}".
RegexTries(t, i) ==
  IF ~(i + 1 <= Len(t) /\ t[i] = "{" /\ t[i + 1] = "{") THEN {}
  ELSE { ab \in ((i + 2)..(i + 2 + SpaceRun(t, i + 2))) \X ((i + 3)..(Len(t) + 1)) :
           /\ ab[1] < ab[2]
           /\ \A k \in ab[1]..(ab[2] - 1) : ~IsBrace(t[k])
           /\ LET c == ab[2] + SpaceRun(t, ab[2])
              IN c + 1 <= Len(t) /\ t[c] = "}" /\ t[c + 1] = "}" }

\* The match the backtracking matcher finds at i: the first \s* is greedy (the
\* largest a first), the group is lazy (then the smallest b), the second \s* is
\* greedy.  index and end are positions of the text, end the one after the match.
RegexMatchAt(t, i) ==
  LET tries == RegexTries(t, i)
      ab == CHOOSE x \in tries :
              \A y \in tries : y[1] < x[1] \/ (y[1] = x[1] /\ y[2] >= x[2])
  IN [index |-> i,
      end |-> ab[2] + SpaceRun(t, ab[2]) + 2,
      group |-> SubSeq(t, ab[1], ab[2] - 1)]

NoMatch == [index |-> 0, end |-> 0, group |-> <<>>]

\* RegExp.prototype.exec of the global regex: the leftmost match at or after
\* lastIndex (0-based), or null (index 0 here)
RegexExec(t, from) ==
  LET starts == {i \in (from + 1)..Len(t) : RegexTries(t, i) # {}}
  IN IF starts = {} THEN NoMatch
     ELSE RegexMatchAt(t, CHOOSE i \in starts : \A j \in starts : i <= j)

----------------------------------------------------------------------------
(* The placeholder scanner and the substitution engine. *)

\* Set.prototype.add on a Set kept in insertion order
SetAdd(keys, key) ==
  IF \E k \in 1..Len(keys) : keys[k] = key THEN keys ELSE Append(keys, key)

\* the while loop of detectPlaceholders, entered with the regex's lastIndex at
\* `from`; exec leaves lastIndex after the match, and at 0 when it finds none
RECURSIVE ScanLoop(_, _, _)
ScanLoop(prompt, from, keys) ==
  LET match == RegexExec(prompt, from)
  IN IF match = NoMatch THEN [keys |-> keys, lastIndex |-> 0]
     ELSE LET key == normaliseKey(match.group)
          IN ScanLoop(prompt, match.end - 1,
                      IF Len(key) > 0 THEN SetAdd(keys, key) ELSE keys)

\* a scanner that tests exec once (if for while) and returns after the first match
detectPlaceholdersOnce(prompt, from) ==
  LET match == RegexExec(prompt, from)
  IN IF match = NoMatch THEN [keys |-> <<>>, lastIndex |-> 0]
     ELSE LET key == normaliseKey(match.group)
          IN [keys |-> IF Len(key) > 0 THEN <<key>> ELSE <<>>,
              lastIndex |-> match.end - 1]

\* detectPlaceholders, called with PLACEHOLDER_REGEX.lastIndex = from: the keys it
\* returns and the lastIndex it leaves
detectPlaceholders(prompt, from) == ScanLoop(prompt, from, <<>>)

\* The properties every VariableMap inherits: the maps are plain objects (an object
\* literal, a spread into an object literal), so values[key] finds the members of
\* Object.prototype; the replacer's result is converted to a string.
ObjectPrototype ==
  (<<"constructor">> :>
     <<"function", " ", "Object()", " ", "{", " ", "[native", " ", "code]", " ", "}">>)
  @@ (<<"toString">> :>
     <<"function", " ", "toString()", " ", "{", " ", "[native", " ", "code]", " ", "}">>)

\* values[key]: the own entry, else the inherited one, else undefined
Lookup(values, key) ==
  IF key \in DOMAIN values THEN [defined |-> TRUE, text |-> values[key]]
  ELSE IF key \in DOMAIN ObjectPrototype
       THEN [defined |-> TRUE, text |-> ObjectPrototype[key]]
       ELSE [defined |-> FALSE, text |-> <<>>]

Marker(key) == <<"{", "{">> \o key \o <<"}", "}">>

\* the replacer callback of injectVariables
Replacer(values, rawKey) ==
  LET key == normaliseKey(rawKey)
      value == Lookup(values, key)
  IN IF value.defined /\ value.text # <<>> THEN value.text ELSE Marker(key)

\* String.prototype.replace with the global regex and a replacer function
RECURSIVE ReplaceFrom(_, _, _)
ReplaceFrom(template, values, from) ==
  LET match == RegexExec(template, from)
  IN IF match = NoMatch THEN SubSeq(template, from + 1, Len(template))
     ELSE SubSeq(template, from + 1, match.index - 1)
          \o Replacer(values, match.group)
          \o ReplaceFrom(template, values, match.end - 1)

\* a replace with a regex that lacks the g flag: the first match only
injectVariablesFirstOnly(template, values) ==
  LET match == RegexExec(template, 0)
  IN IF match = NoMatch THEN template
     ELSE SubSeq(template, 1, match.index - 1)
          \o Replacer(values, match.group)
          \o SubSeq(template, match.end, Len(template))

injectVariables(template, values) == ReplaceFrom(template, values, 0)

----------------------------------------------------------------------------
(* The data the session starts from.  The letters of the seed texts that are
   not ASCII are written with their ASCII base letters. *)

DEFAULT_META_PROMPT ==
  << "You are \"Synthetic-Factory\", a zero-GPU, CPU-only background service.", "\n",
     "Your sole task: produce exactly", " ", "{", "{", "count", "}", "}", " ",
     "labelled synthetic images for", " ", "{", "{", "pack_name", "}", "}", ".", "\n",
     "Constraints:", "\n",
     "- Never use real personal data.", "\n",
     "- Output folder:", " ", "{", "{", "output_path", "}", "}", "\n",
     "- Label format: COCO-JSON + plain txt sidecar.", "\n",
     "- Max resolution: 2K; file size < 300 KB.", "\n",
     "- Randomisation seed =", " ", "{", "{", "user_id", "}", "}", " ", "* 997.", "\n",
     "- Finish in <", " ", "{", "{", "timeout", "}", "}", " ",
     "seconds (CPU laptop level).", "\n",
     "- Zip results and place a DONE.txt with MD5 hashes.", "\n",
     "- Return only a JSON summary:", " ", "{",
     "\"status\":\"done\",\"zip_size_MB\":x,\"file_count\":y,\"md5\":\"z\"", "}", "\n",
     "\n",
     "PACK-SPECIFIC ALT-PROMPTS (use when pack matches)" >>

DEFAULT_PACKS ==
  << [id |-> "tr_invoice",
      name |-> <<"Turkish Invoice Pack">>,
      packName |-> <<"TR_INVOICE">>,
      goal |-> <<"Synthetic finance documents mimicking Turkish invoices with anonymised merchant and buyer data.">>,
      perImage |-> Join(<< <<"header=\"FATURA\" aligned to the top center">>,
                           <<"fields: vergi_no, fatura_no, tarih (DD.MM.YYYY), saat, kasa_id">>,
                           <<"table rows with urun_adi, adet, birim_fiyat, toplam">>,
                           <<"QR code placeholder bottom right with caption 'E-Arsiv'">>,
                           <<"stamp 'DIJITAL KOPYA' diagonally semi-transparent">> >>,
                        <<"\n">>),
      systemNotes |-> <<"Ensure totals are arithmetically consistent. Rotate 15% of samples by +-5 degrees for scanner realism.">>],
     [id |-> "us_id",
      name |-> <<"US ID Cards">>,
      packName |-> <<"US_ID_V1">>,
      goal |-> <<"Generate anonymised US-style identification cards with varied backgrounds and lighting.">>,
      perImage |-> Join(<< <<"front-and-back layout split horizontally">>,
                           <<"fields: name, dob, issue_date, expiry_date, doc_number">>,
                           <<"random portrait photo placeholder with coloured silhouette">>,
                           <<"magnetic stripe or barcode on back with gibberish data">> >>,
                        <<"\n">>),
      systemNotes |-> <<"Use lorem ipsum for text values. Render hologram overlays with subtle transparency.">>],
     [id |-> "parking_tickets",
      name |-> <<"Parking Ticket Notices">>,
      packName |-> <<"PARKING_NOTICE_EU">>,
      goal |-> <<"Urban municipality parking violation notices in EU languages with unique ticket numbers.">>,
      perImage |-> Join(<< <<"municipality header with crest placeholder">>,
                           <<"sections: offence_details, location, timestamp, fine_amount">>,
                           <<"footer with payment instructions and IBAN style account numbers">>,
                           <<"paper texture background with folds or creases">> >>,
                        <<"\n">>),
      systemNotes |-> <<"Alternate languages (DE, FR, NL, IT). 20% should include overdue surcharge line item.">>] >>

DEFAULT_VARIABLES ==
  (<<"count">> :> <<"24">>)
  @@ (<<"pack_name">> :> <<"TR_INVOICE">>)
  @@ (<<"output_path">> :> <<"/tmp/synthetic_factory/output">>)
  @@ (<<"user_id">> :> <<"142857">>)
  @@ (<<"timeout">> :> <<"45">>)

----------------------------------------------------------------------------
(* The composer and the state the component derives on every render. *)

\* the lines of packToMarkdown's array literal, before the outer join
PackLines(pack) ==
  << <<"Pack Name: ">> \o pack.packName,
     <<"Objective: ">> \o pack.goal,
     <<>>,
     <<"Per Image Directives:">>,
     Join([k \in 1..Len(Split(pack.perImage, "\n")) |->
             <<"- ">> \o Split(pack.perImage, "\n")[k]],
          <<"\n">>),
     <<>>,
     <<"System Notes: ">> \o pack.systemNotes >>

\* a rendering that joins the directive text as it is, without the map to bullets
packToMarkdownRawDirectives(pack) ==
  Join([k \in 1..Len(PackLines(pack)) |->
          IF k = 5 THEN pack.perImage ELSE PackLines(pack)[k]],
       <<"\n">>)

packToMarkdown(pack) == Join(PackLines(pack), <<"\n">>)

\* Array.prototype.find by id: the position of the first record with that id, 0
\* when there is none (find returns undefined)
FindPack(ps, id) ==
  IF \E k \in 1..Len(ps) : ps[k].id = id
  THEN CHOOSE k \in 1..Len(ps) : ps[k].id = id /\ \A j \in 1..(k - 1) : ps[j].id # id
  ELSE 0

\* packs.find(...) ?? packs[0], as a position of packs; 0 is undefined (no packs)
SelectedIndex(ps, id) ==
  IF FindPack(ps, id) # 0 THEN FindPack(ps, id)
  ELSE IF Len(ps) > 0 THEN 1 ELSE 0

selectedPack == packs[SelectedIndex(packs, selectedPackId)]

finalPrompt == injectVariables(metaPrompt, variables)

divider == <<"\n", "\n", "---", "\n", "\n">>

combinedPrompt ==
  IF SelectedIndex(packs, selectedPackId) = 0 THEN finalPrompt
  ELSE finalPrompt \o divider \o packToMarkdown(selectedPack)

----------------------------------------------------------------------------
(* The handlers.  last records the handler that ran, its arguments, what it
   returned and the state it ran in. *)

PackIds(ps) == {ps[k].id : k \in 1..Len(ps)}

Snapshot ==
  [metaPrompt |-> metaPrompt, variables |-> variables, packs |-> packs,
   selectedPackId |-> selectedPackId,
   shown |-> SelectedIndex(packs, selectedPackId)]

Ran(op, packId, field, key, value, ret) ==
  [op |-> op, packId |-> packId, field |-> field, key |-> key, value |-> value,
   ret |-> ret, pre |-> Snapshot]

\* a store that keeps only the entry written: { [key]: value } without ...prev
StoreOnlyThis(prev, key, value) == (key :> value)

\* the updater of handleVariableChange: { ...prev, [key]: value }
StoreWith(prev, key, value) ==
  [k \in DOMAIN prev \cup {key} |-> IF k = key THEN value ELSE prev[k]]

\* the updater of handlePackFieldChange: prev.map(...)
PacksWith(prev, id, field, value) ==
  [k \in 1..Len(prev) |->
     IF prev[k].id = id THEN [prev[k] EXCEPT ![field] = value] ELSE prev[k]]

\* an id that does not follow the size of the registry
NewPackIdFixed(nextIndex) == "pack_4"

\* the template literals of addNewPack: `pack_${nextIndex}` and its like
NewPackId(nextIndex) == "pack_" \o ToString(nextIndex)

NewPack(nextIndex) ==
  [id |-> NewPackId(nextIndex),
   name |-> <<"New Pack " \o ToString(nextIndex)>>,
   packName |-> <<"PACK_" \o ToString(nextIndex)>>,
   goal |-> <<"Describe the objective for this synthetic data pack.">>,
   perImage |-> <<"List per-image directives, each on its own line.">>,
   systemNotes |-> <<"Add advanced notes such as balancing rules or post-processing.">>]

\* the inputs of the session: what the operator types or clicks
NewPrompts ==
  { <<"Generate", " ", "{", "{", "count", "}", "}", " ", "images for", " ",
      "{", "{", "pack_name", "}", "}">>,
    <<"{", "{", " ", "count", " ", "}", "}", "{", "{", "batch", "}", "}">> }

TypedValues == { <<>>, <<"10">> }

EditableFields == {"name", "packName", "goal", "perImage", "systemNotes"}

FieldInputs(field) ==
  CASE field = "packName" -> { <<"FOO">>, <<>> }
    [] field = "perImage" -> { <<"a", "\n", "b">> }
    [] field = "goal" -> { <<"G">> }
    [] field = "systemNotes" -> { <<"N">> }
    [] OTHER -> { <<"FOO">> }

\* an id no record has
UnknownIds == {"ghost"}

Tick == clock < MaxSteps /\ clock' = clock + 1

\* useState<string | null>(null), no timeout set, no write under way
ClipboardIdle ==
  /\ copied = "null"
  /\ copiedAt = [copy |-> 0, at |-> 0]
  /\ timers = {}
  /\ writes = {}
  /\ now = 0

\* the textarea's onChange: setMetaPrompt, then the render recomputes the memo
\* detectedVariables with the shared regex as the last call left it
setMetaPrompt(text) ==
  /\ Tick
  /\ metaPrompt' = text
  /\ LET scan == detectPlaceholders(text, lastIndex)
     IN detectedVariables' = scan.keys /\ lastIndex' = scan.lastIndex
  /\ last' = Ran("setMetaPrompt", "", "", <<>>, text, "undefined")
  /\ UNCHANGED clipboard
  /\ UNCHANGED <<variables, packs, selectedPackId>>

handleVariableChange(key, value) ==
  /\ Tick
  /\ variables' = StoreWith(variables, key, value)
  /\ last' = Ran("handleVariableChange", "", "", key, value, "undefined")
  /\ UNCHANGED clipboard
  /\ UNCHANGED <<metaPrompt, packs, selectedPackId, detectedVariables, lastIndex>>

handlePackFieldChange(field, value) ==
  /\ Tick
  /\ packs' = PacksWith(packs, selectedPackId, field, value)
  /\ variables' = IF field = "packName"
                  THEN StoreWith(variables, <<"pack_name">>, value)
                  ELSE variables
  /\ last' = Ran("handlePackFieldChange", "", field, <<>>, value, "undefined")
  /\ UNCHANGED clipboard
  /\ UNCHANGED <<metaPrompt, selectedPackId, detectedVariables, lastIndex>>

handleSelectPack(packId) ==
  /\ Tick
  /\ selectedPackId' = packId
  /\ variables' = IF FindPack(packs, packId) # 0
                  THEN StoreWith(variables, <<"pack_name">>,
                                 packs[FindPack(packs, packId)].packName)
                  ELSE variables
  /\ last' = Ran("handleSelectPack", packId, "", <<>>, <<>>, "undefined")
  /\ UNCHANGED clipboard
  /\ UNCHANGED <<metaPrompt, packs, detectedVariables, lastIndex>>

addNewPack ==
  /\ Tick
  /\ Len(packs) < MaxPacks
  /\ LET newPack == NewPack(Len(packs) + 1)
     IN /\ packs' = Append(packs, newPack)
        /\ selectedPackId' = newPack.id
        /\ variables' = StoreWith(variables, <<"pack_name">>, newPack.packName)
        /\ last' = Ran("addNewPack", newPack.id, "", <<>>, <<>>, "undefined")
  /\ UNCHANGED clipboard
  /\ UNCHANGED <<metaPrompt, detectedVariables, lastIndex>>

\* the Apply button: selectedPack.packName || variables.pack_name
applyPackName ==
  /\ Tick
  /\ SelectedIndex(packs, selectedPackId) # 0
  /\ LET value == IF selectedPack.packName # <<>> THEN selectedPack.packName
                  ELSE variables[<<"pack_name">>]
     IN /\ variables' = StoreWith(variables, <<"pack_name">>, value)
        /\ last' = Ran("applyPackName", "", "", <<"pack_name">>, value, "undefined")
  /\ UNCHANGED clipboard
  /\ UNCHANGED <<metaPrompt, packs, selectedPackId, detectedVariables, lastIndex>>

Init ==
  /\ metaPrompt = DEFAULT_META_PROMPT
  /\ variables = DEFAULT_VARIABLES
  /\ packs = DEFAULT_PACKS
  /\ selectedPackId = DEFAULT_PACKS[1].id
  /\ detectedVariables = detectPlaceholders(DEFAULT_META_PROMPT, 0).keys
  /\ lastIndex = detectPlaceholders(DEFAULT_META_PROMPT, 0).lastIndex
  /\ last = [op |-> "init", packId |-> "", field |-> "", key |-> <<>>, value |-> <<>>,
             ret |-> "undefined",
             pre |-> [metaPrompt |-> DEFAULT_META_PROMPT, variables |-> DEFAULT_VARIABLES,
                      packs |-> DEFAULT_PACKS, selectedPackId |-> DEFAULT_PACKS[1].id,
                      shown |-> 1]]
  /\ clock = 0
  /\ ClipboardIdle

Next ==
  \/ \E text \in NewPrompts : setMetaPrompt(text)
  \/ \E k \in 1..Len(detectedVariables), value \in TypedValues :
       handleVariableChange(detectedVariables[k], value)
  \/ \E field \in EditableFields : \E value \in FieldInputs(field) :
       handlePackFieldChange(field, value)
  \/ \E packId \in PackIds(packs) \cup UnknownIds : handleSelectPack(packId)
  \/ addNewPack
  \/ applyPackName

Spec == Init /\ [][Next]_vars

----------------------------------------------------------------------------
(* The scanner and the engine on their own: every template put together from
   at most MaxParts parts, against every store over two names. *)

Parts ==
  { <<"{", "{">>, <<"}", "}">>, <<"{">>, <<"}">>, <<" ">>, <<"a">>,
    <<"{", "{", "a", "}", "}">>,
    <<"{", "{", " ", "a", " ", "}", "}">>,
    <<"{", "{", "b", "}", "}">>,
    <<"{", "{", " ", "}", "}">>,
    <<"{", "{", "a", " ", "b", "}", "}">>,
    <<"{", "{", "{", "{", "a", "}", "}">>,
    <<"{", "{", "constructor", "}", "}">> }

Templates == {Flatten(ps) : ps \in SeqsUpTo(Parts, MaxParts)}

StoreKeys == { <<"a">>, <<"b">> }

StoreValues == { <<>>, <<"x">>, <<"b">>, <<"{", "{", "b", "}", "}">> }

Stores == UNION {[keys -> StoreValues] : keys \in SUBSET StoreKeys}

\* a call of detectPlaceholders on the template, with the regex as the last call left it
Detect ==
  /\ LET scan == detectPlaceholders(metaPrompt, lastIndex)
     IN /\ last' = Ran("detectPlaceholders", "", "", <<>>, metaPrompt, scan.keys)
        /\ lastIndex' = scan.lastIndex
  /\ UNCHANGED clipboard
  /\ UNCHANGED <<metaPrompt, variables, packs, selectedPackId, detectedVariables, clock>>

\* a render of the template; replace resets the regex's lastIndex
Render ==
  /\ last' = Ran("injectVariables", "", "", <<>>, metaPrompt,
                 injectVariables(metaPrompt, variables))
  /\ lastIndex' = 0
  /\ UNCHANGED clipboard
  /\ UNCHANGED <<metaPrompt, variables, packs, selectedPackId, detectedVariables, clock>>

\* the output of the last render fed back through the engine with the same store
RenderAgain ==
  /\ last.op = "injectVariables"
  /\ last' = Ran("injectVariablesAgain", "", "", <<>>, last.ret,
                 injectVariables(last.ret, variables))
  /\ lastIndex' = 0
  /\ UNCHANGED clipboard
  /\ UNCHANGED <<metaPrompt, variables, packs, selectedPackId, detectedVariables, clock>>

InitEngine ==
  /\ metaPrompt \in Templates
  /\ variables \in Stores
  /\ packs = DEFAULT_PACKS
  /\ selectedPackId = DEFAULT_PACKS[1].id
  /\ detectedVariables = detectPlaceholders(metaPrompt, 0).keys
  /\ lastIndex = detectPlaceholders(metaPrompt, 0).lastIndex
  /\ last = [op |-> "init", packId |-> "", field |-> "", key |-> <<>>, value |-> <<>>,
             ret |-> "undefined",
             pre |-> [metaPrompt |-> metaPrompt, variables |-> variables,
                      packs |-> DEFAULT_PACKS, selectedPackId |-> DEFAULT_PACKS[1].id,
                      shown |-> 1]]
  /\ clock = 0
  /\ ClipboardIdle

NextEngine == Detect \/ Render \/ RenderAgain

SpecEngine == InitEngine /\ [][NextEngine]_vars

----------------------------------------------------------------------------
(* copyToClipboard on its own: the copy buttons, the settling of
   clipboard.writeText, the timeouts and the passing of time. *)

\* the delay of setTimeout(() => setCopied(null), 1800), in ms
StatusDelay == 1800

\* time passes in steps of half the delay, up to a horizon past the last copy
Granule == StatusDelay \div 2

Horizon == (MaxSteps + 1) * StatusDelay

\* the labels the three copy buttons pass
CopyLabels == {"meta", "dispatch", "json"}

appState == <<metaPrompt, variables, packs, selectedPackId, detectedVariables, lastIndex>>

Clip(op, label, copy) ==
  [op |-> op, label |-> label, copy |-> copy,
   shown |-> copied, by |-> copiedAt.copy, since |-> copiedAt.at, at |-> now]

\* a click on a copy button: the handler runs up to the await of writeText
copyToClipboard(label) ==
  /\ Tick
  /\ writes' = writes \cup {[copy |-> clock + 1, label |-> label]}
  /\ last' = Clip("copyToClipboard", label, clock + 1)
  /\ UNCHANGED <<appState, copied, copiedAt, timers, now>>

\* writeText resolved: setCopied(label), setTimeout(..., 1800)
writeResolved(w) ==
  /\ w \in writes
  /\ writes' = writes \ {w}
  /\ copied' = w.label
  /\ copiedAt' = [copy |-> w.copy, at |-> now]
  /\ timers' = timers \cup {[copy |-> w.copy, due |-> now + StatusDelay]}
  /\ last' = Clip("writeResolved", w.label, w.copy)
  /\ UNCHANGED <<appState, clock, now>>

\* writeText rejected: the catch block, setCopied(null)
writeRejected(w) ==
  /\ w \in writes
  /\ writes' = writes \ {w}
  /\ copied' = "null"
  /\ last' = Clip("writeRejected", w.label, w.copy)
  /\ UNCHANGED <<appState, clock, copiedAt, timers, now>>

\* a timeout whose delay has elapsed runs its callback: setCopied(null)
timeout(t) ==
  /\ t \in timers /\ now >= t.due
  /\ copied' = "null"
  /\ timers' = timers \ {t}
  /\ last' = Clip("timeout", copied, t.copy)
  /\ UNCHANGED <<appState, clock, copiedAt, writes, now>>

\* time passes while something is pending; a timeout that is due runs first
elapse ==
  /\ timers # {} \/ writes # {}
  /\ \A t \in timers : t.due > now
  /\ now < Horizon
  /\ now' = now + Granule
  /\ last' = Clip("elapse", "", 0)
  /\ UNCHANGED <<appState, clock, copied, copiedAt, timers, writes>>

NextCopy ==
  \/ \E label \in CopyLabels : copyToClipboard(label)
  \/ \E w \in writes : writeResolved(w)
  \/ \E w \in writes : writeRejected(w)
  \/ \E t \in timers : timeout(t)
  \/ elapse

SpecCopy == Init /\ [][NextCopy]_vars

----------------------------------------------------------------------------
(* Claims about the substitution engine and the scanner (SpecEngine). *)

\* the store's own entry for a name, present and not empty
HasValue(S, name) == name \in DOMAIN S /\ S[name] # <<>>

\* what the engine is to produce: each marker replaced by the store's value for its
\* trimmed name when the store holds a non-empty one, and by {{name}} otherwise
RECURSIVE C5_Expected(_, _, _)
C5_Expected(t, S, from) ==
  LET m == RegexExec(t, from)
  IN IF m = NoMatch THEN SubSeq(t, from + 1, Len(t))
     ELSE SubSeq(t, from + 1, m.index - 1)
          \o (IF HasValue(S, Trim(m.group)) THEN S[Trim(m.group)]
              ELSE Marker(Trim(m.group)))
          \o C5_Expected(t, S, m.end - 1)

\* C5: render replaces each well-formed marker whose trimmed name has a non-empty
\* value in the store by that value, and emits every marker whose name is absent
\* from the store or mapped to the empty string as {{name}}.
C5_RenderResolvesOrKeepsMarker ==
  last.op = "injectVariables" => last.ret = C5_Expected(last.value, variables, 0)

\* the text of t outside its markers
RECURSIVE OutsideMarkers(_, _)
OutsideMarkers(t, from) ==
  LET m == RegexExec(t, from)
  IN IF m = NoMatch THEN SubSeq(t, from + 1, Len(t))
     ELSE SubSeq(t, from + 1, m.index - 1) \o OutsideMarkers(t, m.end - 1)

NoBrace(t) == \A k \in 1..Len(t) : ~IsBrace(t[k])

\* every name scan(T) reports has a non-empty entry in the store
AllScannedResolved ==
  \A k \in 1..Len(detectedVariables) : HasValue(variables, detectedVariables[k])

\* C6 as stated: render(render(T,S),S) = render(T,S) whenever every name in scan(T)
\* has a non-empty entry in S, stores whose values hold marker text included.
C6_RenderIdempotentWhenResolved ==
  (last.op = "injectVariablesAgain" /\ AllScannedResolved) => last.ret = last.value

\* C6 as amended: render(render(T,S),S) = render(T,S) whenever every name in scan(T)
\* has a non-empty entry in S, no value of S holds a brace and T holds no brace
\* outside its well-formed markers.
C6_RenderIdempotentWithoutBraces ==
  ( /\ last.op = "injectVariablesAgain"
    /\ AllScannedResolved
    /\ \A name \in DOMAIN variables : NoBrace(variables[name])
    /\ NoBrace(OutsideMarkers(metaPrompt, 0)) )
  => last.ret = last.value

\* The amended C6 without its last condition, which TLC finds violated: in
\* {{{{a}}}} with a = "b" and b = "x" the first render leaves {{b}}, a marker made
\* of the template's stray braces and a brace-free value, and the second gives x.
C6_StrayBracesMatter ==
  ( /\ last.op = "injectVariablesAgain"
    /\ AllScannedResolved
    /\ \A name \in DOMAIN variables : NoBrace(variables[name]) )
  => last.ret = last.value

\* a fully resolved template of two markers has been rendered twice
C6_Witness ==
  /\ last.op = "injectVariablesAgain"
  /\ AllScannedResolved
  /\ \A name \in DOMAIN variables : NoBrace(variables[name])
  /\ NoBrace(OutsideMarkers(metaPrompt, 0))
  /\ Len(detectedVariables) = 2
  /\ last.value # metaPrompt

\* the positions where a well-formed marker starts: "{{", then an interior of one
\* or more characters none of which is a brace, then "}}"
MarkerStarts(t) ==
  { i \in 1..Len(t) :
      \E j \in (i + 3)..Len(t) :
        /\ i + 1 <= Len(t) /\ t[i] = "{" /\ t[i + 1] = "{"
        /\ j + 1 <= Len(t) /\ t[j] = "}" /\ t[j + 1] = "}"
        /\ \A k \in (i + 2)..(j - 1) : ~IsBrace(t[k]) }

\* the name of the marker that starts at i: its interior without the white space
\* around it
MarkerName(t, i) ==
  LET j == CHOOSE e \in (i + 3)..Len(t) :
             t[e] = "}" /\ \A k \in (i + 2)..(e - 1) : ~IsBrace(t[k])
  IN Trim(SubSeq(t, i + 2, j - 1))

FirstStart(t, name) ==
  CHOOSE i \in MarkerStarts(t) :
    /\ MarkerName(t, i) = name
    /\ \A j \in MarkerStarts(t) : MarkerName(t, j) = name => i <= j

\* C7: for every template, scan returns the trimmed names of the well-formed
\* markers in order of first occurrence, with no duplicate and no empty name, and
\* a further call on the same template returns the same sequence.
C7_ScanDistinctTrimmedOrdered ==
  last.op = "detectPlaceholders" =>
    LET keys == last.ret
        t == last.value
    IN /\ \A k \in 1..Len(keys) : keys[k] # <<>> /\ keys[k] = Trim(keys[k])
       /\ \A k, m \in 1..Len(keys) : k # m => keys[k] # keys[m]
       /\ {keys[k] : k \in 1..Len(keys)}
            = {MarkerName(t, i) : i \in MarkerStarts(t)} \ {<<>>}
       /\ \A k, m \in 1..Len(keys) :
            k < m => FirstStart(t, keys[k]) < FirstStart(t, keys[m])
       /\ keys = detectedVariables
       /\ lastIndex = 0

\* a template with two markers of the same name, one of them padded, was scanned
C7_Witness ==
  /\ last.op = "detectPlaceholders"
  /\ metaPrompt = <<"{", "{", " ", "a", " ", "}", "}", "{", "{", "a", "}", "}">>
  /\ last.ret = << <<"a">> >>

----------------------------------------------------------------------------
(* Claims about the pack registry, the variable store and the composer (Spec). *)

PackName == <<"pack_name">>

\* C1: a select with an id that matches no record leaves the selection, every
\* record and the variable store unchanged, and signals a lookup failure.
C1_SelectUnknownLeavesState ==
  (last.op = "handleSelectPack" /\ last.packId \notin PackIds(last.pre.packs)) =>
    /\ selectedPackId = last.pre.selectedPackId
    /\ SelectedIndex(packs, selectedPackId) = last.pre.shown
    /\ packs = last.pre.packs
    /\ variables = last.pre.variables
    /\ last.ret = "not_found"

\* C2: each add grows the registry by exactly one record, whose id no record of
\* the session has had, keeps the ids of the registry pairwise distinct, and makes
\* the new record the active selection.
C2_AddAppendsFreshSelected ==
  /\ \A k, m \in 1..Len(packs) : k # m => packs[k].id # packs[m].id
  /\ last.op = "addNewPack" =>
       /\ Len(packs) = Len(last.pre.packs) + 1
       /\ SubSeq(packs, 1, Len(packs) - 1) = last.pre.packs
       /\ packs[Len(packs)].id \notin PackIds(last.pre.packs)
       /\ selectedPackId = packs[Len(packs)].id
       /\ SelectedIndex(packs, selectedPackId) = Len(packs)

\* a second record has been added in one session
C2_Witness ==
  /\ last.op = "addNewPack"
  /\ Len(packs) = Len(DEFAULT_PACKS) + 2
  /\ selectedPackId = "pack_5"

\* C3: right after a successful select, an add, and an edit of the active pack's
\* packName to v, the pack_name variable equals the active pack's packName (and v).
C3_PackNameVariableInSync ==
  /\ ( \/ last.op = "handleSelectPack" /\ last.packId \in PackIds(last.pre.packs)
       \/ last.op = "addNewPack"
       \/ last.op = "handlePackFieldChange" /\ last.field = "packName" )
     => variables[PackName] = selectedPack.packName
  /\ (last.op = "handlePackFieldChange" /\ last.field = "packName")
     => variables[PackName] = last.value

\* C4: the selection id names the first record at the start and always names a
\* record of the registry.
C4_SelectionResolves ==
  /\ last.op = "init" => selectedPackId = packs[1].id
  /\ Len(packs) > 0 => FindPack(packs, selectedPackId) # 0

\* the text of the combined prompt after the rendered template and the divider
PackSection == SubSeq(combinedPrompt, Len(finalPrompt) + Len(divider) + 1,
                      Len(combinedPrompt))

Bullets(pack) ==
  [k \in 1..Len(Split(pack.perImage, "\n")) |-> <<"- ">> \o Split(pack.perImage, "\n")[k]]

\* C8 as stated: the pack section is the lines Pack Name, blank, Objective, blank,
\* Per Image Directives:, one bullet per directive line, blank, System Notes.
C8_PackSectionLinesAsStated ==
  packToMarkdown(selectedPack) =
    Join(<< <<"Pack Name: ">> \o selectedPack.packName,
            <<>>,
            <<"Objective: ">> \o selectedPack.goal,
            <<>>,
            <<"Per Image Directives:">> >>
         \o Bullets(selectedPack)
         \o << <<>>, <<"System Notes: ">> \o selectedPack.systemNotes >>,
         <<"\n">>)

\* C8 as amended: the pack section is the lines Pack Name, Objective (no blank line
\* between the two), blank, Per Image Directives:, one bullet per directive line in
\* order, blank, System Notes.
C8_PackSectionLines ==
  packToMarkdown(selectedPack) =
    Join(<< <<"Pack Name: ">> \o selectedPack.packName,
            <<"Objective: ">> \o selectedPack.goal,
            <<>>,
            <<"Per Image Directives:">> >>
         \o Bullets(selectedPack)
         \o << <<>>, <<"System Notes: ">> \o selectedPack.systemNotes >>,
         <<"\n">>)

\* the scenario of the specification: pack US_ID_V1 with goal G, directives a and
\* b, notes N is the active pack, and the combined text ends with its section
C8_Witness ==
  /\ selectedPack.packName = <<"US_ID_V1">>
  /\ selectedPack.goal = <<"G">>
  /\ selectedPack.perImage = <<"a", "\n", "b">>
  /\ selectedPack.systemNotes = <<"N">>
  /\ PackSection = packToMarkdown(selectedPack)
  /\ Split(PackSection, "\n") =
       << <<"Pack Name: ", "US_ID_V1">>, <<"Objective: ", "G">>, <<>>,
          <<"Per Image Directives:">>, <<"- ", "a">>, <<"- ", "b">>, <<>>,
          <<"System Notes: ", "N">> >>

\* C9: a field edit replaces exactly the named field of the record shown as
\* active and leaves its other fields, the other records, the order and size of
\* the registry and the selection unchanged.
C9_EditReplacesShownField ==
  last.op = "handlePackFieldChange" =>
    /\ Len(packs) = Len(last.pre.packs)
    /\ selectedPackId = last.pre.selectedPackId
    /\ \A k \in 1..Len(packs) :
         IF k = last.pre.shown
         THEN /\ packs[k][last.field] = last.value
              /\ \A f \in DOMAIN packs[k] \ {last.field} :
                   packs[k][f] = last.pre.packs[k][f]
         ELSE packs[k] = last.pre.packs[k]

\* C10: no operation removes an entry of the variable store; an edit of the
\* template leaves the store unchanged, a variable edit changes only the entry
\* named, and every other handler changes at most the pack_name entry.
C10_StoreEntriesPersist ==
  /\ DOMAIN last.pre.variables \subseteq DOMAIN variables
  /\ last.op = "setMetaPrompt" => variables = last.pre.variables
  /\ last.op = "handleVariableChange" =>
       /\ DOMAIN variables = DOMAIN last.pre.variables \cup {last.key}
       /\ variables[last.key] = last.value
       /\ \A k \in DOMAIN last.pre.variables \ {last.key} :
            variables[k] = last.pre.variables[k]
  /\ last.op \in {"handlePackFieldChange", "handleSelectPack", "addNewPack",
                  "applyPackName"} =>
       \A k \in DOMAIN last.pre.variables \ {PackName} :
         variables[k] = last.pre.variables[k]

\* a variable was edited while the store held an entry whose placeholder is no
\* longer in the template
C10_Witness ==
  /\ last.op = "handleVariableChange"
  /\ \E name \in DOMAIN last.pre.variables \ {last.key} :
       /\ \A k \in 1..Len(detectedVariables) : detectedVariables[k] # name
       /\ variables[name] = DEFAULT_VARIABLES[name]
  /\ last.key \notin DOMAIN DEFAULT_VARIABLES

----------------------------------------------------------------------------
(* Claims about the status label of the copy buttons (SpecCopy). *)

\* C11: a timeout clears a label that is showing only once the delay started by
\* the copy that set that label has elapsed; the timer of an earlier copy never
\* clears the label of a later copy before that.
C11_LabelKeptForItsDelay ==
  (last.op = "timeout" /\ last.shown # "null") =>
    last.at >= last.since + StatusDelay

\* What does hold of the label: while it shows, the timeout of the copy that set
\* it is still pending, so with no further copy it is cleared in the end, not
\* later than StatusDelay after it was set.
LabelHasItsTimer ==
  copied # "null" =>
    /\ \E t \in timers : t.copy = copiedAt.copy /\ t.due = copiedAt.at + StatusDelay
    /\ now <= copiedAt.at + StatusDelay

====
